---- MODULE Spec2Model ----
(***************************************************************************)
(* The update scheduler of common/models.py: UpdatableModel.update with    *)
(* its two class-level locks, the cooperative termination flag, and the   *)
(* run log written by UpdatableLoggableModel through an auto-deleting     *)
(* UpdateLogModel.  Two concrete job classes of common/tests/models.py    *)
(* are deployed in one process: UpdatableModelImpl (hooks are no-ops) and *)
(* UpdatableLoggableModelImpl (hooks write the run log).                  *)
(***************************************************************************)
EXTENDS Integers, Sequences, FiniteSets, TLC

\* ---------------------------------------------------------------- bounds
MaxTime == 2            \* the wall clock runs over 0..MaxTime
TimeLimitValue == 1     \* the configured time_limit, in clock ticks
MaxObjectsValue == 1    \* the configured max_objects_count
MaxFailures == 1        \* record writes that raise in one behaviour

\* ------------------------------------------------------------- constants
None == 0 - 1           \* Python's None in a field that holds a number
Null == "None"          \* Python's None in a field that holds a name
\* each thread is Thread(target=cls.update): it makes one call
Threads == {"t1", "t2", "t3"}
\* the threads are named in the order in which they are started
StartedBefore(t) ==
    CASE t = "t1" -> {}
      [] t = "t2" -> {"t1"}
      [] t = "t3" -> {"t1", "t2"}
Plain == "UpdatableModelImpl"
Loggable == "UpdatableLoggableModelImpl"
Classes == {Plain, Loggable}
Time == 0..MaxTime

\* keyword arguments of UpdatableLoggableModelImpl._update
Kwargs == {"default", "fail_update_param"}

VARIABLES
    now,                \* timezone.now()
    time_limit,         \* [Classes -> timedelta or None], static field
    use_average_time,   \* static field of the loggable class
    max_objects_count,  \* static field of the log model
    update_lock,        \* UpdatableModel._update_lock: holder or None
    check_lock,         \* UpdatableModel._check_lock: holder or None
    time_started,       \* cls._time_started, per class
    must_terminate,     \* cls._must_terminate, per class
    log,                \* UpdatableLoggableModelImpl._log: <<instance>>, <<>> for None
    objects,            \* rows of the log model's table
    next_pk,            \* the table's auto-increment
    pc,                 \* per thread: line of update() it stands before
    cls,                \* per thread: the class update() was called on
    exception,          \* per thread: local `exception`
    exception2,         \* per thread: local `exception_after_handling_attempt`
    result,             \* per thread: how its update() call ended
    can_start,          \* per thread: what is_can_start() returned to its call
    deployed,           \* the job classes the process calls update() on
    faulty,             \* whether record writes may raise
    failures,           \* record writes that raised so far
    waited              \* callers that stood in line 152 until a run ended

vars == <<now, time_limit, use_average_time, max_objects_count, update_lock,
          check_lock, time_started, must_terminate, log, objects, next_pk,
          pc, cls, exception, exception2, result, can_start,
          deployed, faulty, failures, waited>>

config == <<time_limit, use_average_time, max_objects_count, deployed, faulty>>
locks == <<update_lock, check_lock>>
sched == <<time_started, must_terminate>>
store == <<log, objects, next_pk>>
locals == <<cls, exception, exception2, can_start>>

\* ------------------------------------------------ the log model's table
\* log_model(): a fresh, unsaved UpdateLogModel instance
NewLog ==
    [pk |-> None, time_created |-> None, time_finished |-> None,
     was_canceled |-> FALSE, was_terminated |-> FALSE, has_failed |-> FALSE,
     messages |-> Null]

Pks(objs) == {o.pk : o \in objs}

\* DeletableModel.get_objects_to_delete ordering by -time_created
get_objects_to_delete_newest(objs, max) ==
    LET count == Cardinality(objs)
        objects_to_delete_count == IF max # None /\ max # 0 THEN count - max ELSE 0
    IN  IF objects_to_delete_count <= 0
        THEN {{}}
        ELSE {D \in SUBSET objs :
                /\ Cardinality(D) = objects_to_delete_count
                /\ \A d \in D : \A r \in objs \ D :
                      d.time_created >= r.time_created}

\* DeletableModel.get_objects_to_delete: the first count - max_objects_count
\* rows by time_created.  The ordering has no tie-break, so among rows of
\* equal time_created the database may return any; every possible answer
\* is an element of the set.
get_objects_to_delete(objs, max) ==
    LET count == Cardinality(objs)
        objects_to_delete_count == IF max # None /\ max # 0 THEN count - max ELSE 0
    IN  IF objects_to_delete_count <= 0
        THEN {{}}
        ELSE {D \in SUBSET objs :
                /\ Cardinality(D) = objects_to_delete_count
                /\ \A d \in D : \A r \in objs \ D :
                      d.time_created <= r.time_created}

\* DeletableModel.try_delete_objects: every table the delete may leave
try_delete_objects(objs, max) ==
    {objs \ D : D \in get_objects_to_delete(objs, max)}

\* The instance after Model.save at time t with auto-increment value npk: a
\* row that is not in the table is INSERTed (a fresh instance gets the next
\* pk), and an INSERT stamps time_created (auto_now_add).
Saved(objs, obj, t, npk) ==
    IF obj.pk \in Pks(objs)
    THEN obj
    ELSE [obj EXCEPT !.pk = IF obj.pk = None THEN npk ELSE obj.pk,
                     !.time_created = t]

\* AutoDeletableModel.save: Model.save, then try_delete_objects.  The set of
\* tables the call may leave.
save(objs, obj, t, npk, max) ==
    LET o == Saved(objs, obj, t, npk)
        written == {r \in objs : r.pk # o.pk} \cup {o}
    IN  try_delete_objects(written, max)

\* ORDER BY time_finished DESC puts the rows whose time_finished is NULL
\* first on the backends that sort NULL as the largest value (PostgreSQL,
\* Oracle) and last on those that sort it as the smallest (SQLite, MySQL);
\* the code names no backend
NullOrders == {"nulls_largest", "nulls_smallest"}

\* QuerySet.filter(**filters): the flags named in filters are False
Filter(objs, filters) ==
    {o \in objs : /\ ("was_canceled" \in filters => ~o.was_canceled)
                  /\ ("was_terminated" \in filters => ~o.was_terminated)
                  /\ ("has_failed" \in filters => ~o.has_failed)}

\* the greatest of a non-empty set of times
Greatest(S) == CHOOSE x \in S : \A y \in S : y <= x

\* UpdatableLoggableModel.get_last_update_time: None for an empty filter
\* result, else the time_finished of objects.latest('time_finished')
get_last_update_time(objs, filters, order) ==
    LET found == Filter(objs, filters)
        finished == {o.time_finished : o \in {x \in found : x.time_finished # None}}
    IN  IF found = {} THEN None
        ELSE IF \E o \in found : o.time_finished = None
        THEN IF order = "nulls_largest" \/ finished = {} THEN None
             ELSE Greatest(finished)
        ELSE Greatest(finished)

\* UpdatableLoggableModel.get_last_update_attempt_time
get_last_update_attempt_time(objs, order) ==
    get_last_update_time(objs, {"was_canceled"}, order)

\* UpdatableLoggableModel.get_last_successful_update_time
get_last_successful_update_time(objs, order) ==
    get_last_update_time(objs, {"was_canceled", "was_terminated", "has_failed"}, order)

RECURSIVE SumDurations(_)
SumDurations(objs) ==
    IF objs = {} THEN 0
    ELSE LET o == CHOOSE x \in objs : TRUE
         IN  (o.time_finished - o.time_created) + SumDurations(objs \ {o})

\* the filter of calc_average_update_time without has_failed=False
CleanFinishedOrFailed(objs) ==
    {o \in objs : /\ o.time_created # None
                  /\ o.time_finished # None
                  /\ ~o.was_canceled
                  /\ ~o.was_terminated}

\* the rows calc_average_update_time averages over
CleanFinished(objs) ==
    {o \in objs : /\ o.time_created # None
                  /\ o.time_finished # None
                  /\ ~o.was_canceled
                  /\ ~o.was_terminated
                  /\ ~o.has_failed}

\* UpdatableLoggableModel.calc_average_update_time: Avg over the clean
\* finished rows, kept exact as <<sum, count>>; count 0 stands for the None
\* the aggregate returns when there is no row.
calc_average_update_time(objs) ==
    LET rows == CleanFinished(objs)
    IN  <<SumDurations(rows), Cardinality(rows)>>

\* truth value of the average (a zero timedelta is falsy, as None is)
Truthy(average_time) ==
    average_time[2] > 0 /\ average_time[1] > 0

average_time_coefficient == 1

\* current_time > average_time * average_time_coefficient
ExceedsAverage(current_time, average_time) ==
    current_time * average_time[2] > average_time[1] * average_time_coefficient

\* ------------------------------------------------------- admission gate
\* UpdatableModel.is_updating: cls._update_lock is the one Lock object the
\* base class holds, whichever subclass it is looked up through
is_updating(c) == update_lock # Null

\* `if not time_limit`: None and a zero timedelta are falsy
HasTimeLimit(c) == time_limit[c] # None /\ time_limit[c] # 0

\* timezone.now() - cls._time_started raises TypeError while _time_started
\* is None; the base class evaluates it only behind a time limit
is_can_start_raises(c) ==
    /\ is_updating(c)
    /\ time_started[c] = None
    /\ (c = Plain => HasTimeLimit(c))

\* UpdatableModel.is_can_start with >= for > in line 126
is_can_start_base_ge(c) ==
    IF ~is_updating(c) THEN TRUE
    ELSE IF ~HasTimeLimit(c) THEN FALSE
    ELSE IF now - time_started[c] >= time_limit[c] THEN TRUE
    ELSE FALSE

\* UpdatableModel.is_can_start
is_can_start_base(c) ==
    IF ~is_updating(c) THEN TRUE
    ELSE IF ~HasTimeLimit(c) THEN FALSE
    ELSE IF now - time_started[c] > time_limit[c] THEN TRUE
    ELSE FALSE

\* UpdatableLoggableModel.is_can_start without `not average_time` in
\* line 270
is_can_start_loggable_limit(c) ==
    IF ~is_updating(c) THEN TRUE
    ELSE LET current_time == now - time_started[c]
             average_time == IF use_average_time
                             THEN calc_average_update_time(objects)
                             ELSE <<0, 0>>
         IN  IF /\ use_average_time
                /\ Truthy(average_time)
                /\ ExceedsAverage(current_time, average_time)
             THEN TRUE
             ELSE IF /\ HasTimeLimit(c)
                     /\ current_time > time_limit[c]
             THEN TRUE
             ELSE FALSE

\* UpdatableLoggableModel.is_can_start with line 270 reached only when
\* use_average_time is off
is_can_start_loggable_nofall(c) ==
    IF ~is_updating(c) THEN TRUE
    ELSE LET current_time == now - time_started[c]
             average_time == IF use_average_time
                             THEN calc_average_update_time(objects)
                             ELSE <<0, 0>>
         IN  IF /\ use_average_time
                /\ Truthy(average_time)
                /\ ExceedsAverage(current_time, average_time)
             THEN TRUE
             ELSE IF /\ ~use_average_time
                     /\ HasTimeLimit(c)
                     /\ current_time > time_limit[c]
             THEN TRUE
             ELSE FALSE

\* UpdatableLoggableModel.is_can_start without the time_limit test of
\* line 270
is_can_start_loggable_nolimit(c) ==
    IF ~is_updating(c) THEN TRUE
    ELSE LET current_time == now - time_started[c]
             average_time == IF use_average_time
                             THEN calc_average_update_time(objects)
                             ELSE <<0, 0>>
         IN  IF /\ use_average_time
                /\ Truthy(average_time)
                /\ ExceedsAverage(current_time, average_time)
             THEN TRUE
             ELSE IF /\ ~Truthy(average_time)
                     /\ current_time > time_limit[c]
             THEN TRUE
             ELSE FALSE

\* UpdatableLoggableModel.is_can_start
is_can_start_loggable(c) ==
    IF ~is_updating(c) THEN TRUE
    ELSE LET current_time == now - time_started[c]
             average_time == IF use_average_time
                             THEN calc_average_update_time(objects)
                             ELSE <<0, 0>>
         IN  IF /\ use_average_time
                /\ Truthy(average_time)
                /\ ExceedsAverage(current_time, average_time)
             THEN TRUE
             ELSE IF /\ ~Truthy(average_time)
                     /\ HasTimeLimit(c)
                     /\ current_time > time_limit[c]
             THEN TRUE
             ELSE FALSE

is_can_start(c) ==
    IF c = Loggable THEN is_can_start_loggable(c) ELSE is_can_start_base(c)

\* ---------------------------------------------------------------- Init
NoResult == [kind |-> "none", ok |-> FALSE, exc |-> Null, exc2 |-> Null]

\* the state after the classes are defined; the static fields are set by
\* the deployment before the first call
Idle ==
    /\ now = 0
    /\ update_lock = Null
    /\ check_lock = Null
    /\ time_started = [c \in Classes |-> None]
    /\ must_terminate = [c \in Classes |-> FALSE]
    /\ log = <<>>
    /\ objects = {}
    /\ next_pk = 1
    /\ pc = [t \in Threads |-> "idle"]
    /\ cls = [t \in Threads |-> Plain]
    /\ exception = [t \in Threads |-> Null]
    /\ exception2 = [t \in Threads |-> Null]
    /\ result = [t \in Threads |-> NoResult]
    /\ can_start = [t \in Threads |-> "unknown"]
    /\ failures = 0
    /\ waited = {}

\* fields of the loggable class on a class without them
Unused ==
    /\ use_average_time = FALSE
    /\ max_objects_count = None

\* class c is the one job class deployed, with any time_limit and
\* use_average_time and with max_objects_count drawn from maxes
Deploy(c, maxes) ==
    /\ deployed = {c}
    /\ \E limit \in {None, TimeLimitValue} :
         time_limit = [d \in Classes |-> IF d = c THEN limit ELSE None]
    /\ IF c = Loggable
       THEN /\ use_average_time \in BOOLEAN
            /\ max_objects_count \in maxes
       ELSE Unused

\* one job class, the log model as it is defined (max_objects_count is
\* None), every record write succeeds
Init ==
    /\ Idle
    /\ faulty = FALSE
    /\ \E c \in Classes : Deploy(c, {None})

\* one job class, the log model as it is defined, record writes may raise
InitFaults ==
    /\ Idle
    /\ faulty = TRUE
    /\ \E c \in Classes : Deploy(c, {None})

\* one loggable job class whose log model may set max_objects_count
InitRetention ==
    /\ Idle
    /\ faulty = FALSE
    /\ Deploy(Loggable, {None, MaxObjectsValue})

\* both job classes in one process, each with a time limit
InitShared ==
    /\ Idle
    /\ faulty = FALSE
    /\ deployed = Classes
    /\ time_limit = [d \in Classes |-> TimeLimitValue]
    /\ Unused

\* -------------------------------------------------------------- actions
\* the wall clock advances
Tick ==
    /\ now < MaxTime
    /\ now' = now + 1
    /\ UNCHANGED <<config, waited, locks, sched, store, pc, locals, result, failures>>

\* a thread is started on cls.update(**kwargs)
Call(t) ==
    /\ pc[t] = "idle"
    /\ \A u \in StartedBefore(t) : pc[u] # "idle"
    /\ \E c \in deployed : cls' = [cls EXCEPT ![t] = c]
    /\ pc' = [pc EXCEPT ![t] = "check_acquire"]
    /\ UNCHANGED <<now, config, waited, locks, sched, store, exception, exception2, result, can_start, failures>>

\* line 152: cls._check_lock.acquire()
CheckAcquire(t) ==
    /\ pc[t] = "check_acquire"
    /\ check_lock = Null
    /\ check_lock' = t
    /\ pc' = [pc EXCEPT ![t] = "is_can_start"]
    /\ UNCHANGED <<now, config, waited, update_lock, sched, store, locals, result, failures>>

\* the thread leaves update() by an exception
Raised(t, e) ==
    /\ pc' = [pc EXCEPT ![t] = "done"]
    /\ result' = [result EXCEPT ![t] =
                    [kind |-> "raised", ok |-> FALSE, exc |-> e, exc2 |-> Null]]

\* the thread leaves update() by `return ok, e, e2`
Returned(t, ok, e, e2) ==
    /\ pc' = [pc EXCEPT ![t] = "done"]
    /\ result' = [result EXCEPT ![t] =
                    [kind |-> "returned", ok |-> ok, exc |-> e, exc2 |-> e2]]

\* line 154: if not cls.is_can_start()
EvalCanStart(t) ==
    /\ pc[t] = "is_can_start"
    /\ IF is_can_start_raises(cls[t])
       THEN /\ Raised(t, "TypeError")
            /\ UNCHANGED can_start
       ELSE /\ pc' = [pc EXCEPT ![t] = IF is_can_start(cls[t])
                                       THEN "set_must_terminate"
                                       ELSE "handle_cannot_start"]
            /\ can_start' = [can_start EXCEPT ![t] =
                                IF is_can_start(cls[t]) THEN "True" ELSE "False"]
            /\ UNCHANGED result
    /\ UNCHANGED <<now, config, waited, locks, sched, store, cls, exception, exception2, failures>>

\* a record write raises (the database is unavailable, the log model is
\* misconfigured); at most MaxFailures writes of a behaviour do
WriteFails ==
    /\ faulty
    /\ failures < MaxFailures
    /\ failures' = failures + 1

\* A hook that stamps time_finished and then saves reads the clock twice:
\* timezone.now() in the hook, and again in Model.save when the row is
\* INSERTed (auto_now_add).  The values the second read may give.
LaterRead == {t2 \in Time : now <= t2 /\ t2 <= now + 1}

\* UpdatableLoggableModel._handle_cannot_start without line 280
CanceledLogUnfinished == [NewLog EXCEPT !.was_canceled = TRUE]

\* UpdatableLoggableModel._handle_cannot_start: a local instance, canceled
CanceledLog == [NewLog EXCEPT !.time_finished = now, !.was_canceled = TRUE]

\* line 155: cls._handle_cannot_start(); the record write may raise (the
\* database is unavailable, the log model is misconfigured)
HandleCannotStart(t) ==
    /\ pc[t] = "handle_cannot_start"
    /\ IF cls[t] = Plain
       THEN /\ pc' = [pc EXCEPT ![t] = "rejected_release"]
            /\ UNCHANGED <<objects, next_pk, result, failures>>
            /\ UNCHANGED now
       ELSE \/ /\ \E t2 \in LaterRead :
                     /\ now' = t2
                     /\ \E objs \in save(objects, CanceledLog, t2, next_pk, max_objects_count) :
                           objects' = objs
               /\ next_pk' = next_pk + 1
               /\ pc' = [pc EXCEPT ![t] = "rejected_release"]
               /\ UNCHANGED <<result, failures>>
            \/ /\ WriteFails
               /\ Raised(t, "DatabaseError")
               /\ UNCHANGED <<now, objects, next_pk>>
    /\ UNCHANGED <<config, waited, locks, sched, log, locals>>

\* lines 156-157 reached only once the execution lock is free
RejectedReturnAfterRun(t) ==
    /\ pc[t] = "rejected_release"
    /\ update_lock = Null
    /\ check_lock' = Null
    /\ Returned(t, FALSE, Null, Null)
    /\ UNCHANGED <<now, config, waited, update_lock, sched, store, locals, failures>>

\* lines 156-157: cls._check_lock.release(); return False, None, None
RejectedReturn(t) ==
    /\ pc[t] = "rejected_release"
    /\ check_lock' = Null
    /\ Returned(t, FALSE, Null, Null)
    /\ UNCHANGED <<now, config, waited, update_lock, sched, store, locals, failures>>

\* line 159 with the admission lock released before the wait of line 161
SetMustTerminateReleasing(t) ==
    /\ pc[t] = "set_must_terminate"
    /\ must_terminate' = [must_terminate EXCEPT ![cls[t]] = TRUE]
    /\ check_lock' = Null
    /\ pc' = [pc EXCEPT ![t] = "update_acquire"]
    /\ UNCHANGED <<now, config, waited, update_lock, time_started, store, locals, result, failures>>

\* line 159: cls._must_terminate = True
SetMustTerminate(t) ==
    /\ pc[t] = "set_must_terminate"
    /\ must_terminate' = [must_terminate EXCEPT ![cls[t]] = TRUE]
    /\ pc' = [pc EXCEPT ![t] = "update_acquire"]
    /\ UNCHANGED <<now, config, waited, locks, time_started, store, locals, result, failures>>

\* line 161 entered without waiting for the lock to be free
UpdateAcquireUnguarded(t) ==
    /\ pc[t] = "update_acquire"
    /\ update_lock' = t
    /\ pc' = [pc EXCEPT ![t] = "clear_must_terminate"]
    /\ UNCHANGED <<now, config, waited, check_lock, sched, store, locals, result, failures>>

\* line 161: with cls._update_lock (blocks while the lock is held)
UpdateAcquire(t) ==
    /\ pc[t] = "update_acquire"
    /\ update_lock = Null
    /\ update_lock' = t
    /\ pc' = [pc EXCEPT ![t] = "clear_must_terminate"]
    /\ UNCHANGED <<now, config, waited, check_lock, sched, store, locals, result, failures>>

\* line 162 left out: the flag is not cleared
ClearMustTerminateSkipped(t) ==
    /\ pc[t] = "clear_must_terminate"
    /\ pc' = [pc EXCEPT ![t] = "set_time_started"]
    /\ UNCHANGED <<now, config, waited, locks, sched, store, locals, result, failures>>

\* line 162: cls._must_terminate = False
ClearMustTerminate(t) ==
    /\ pc[t] = "clear_must_terminate"
    /\ must_terminate' = [must_terminate EXCEPT ![cls[t]] = FALSE]
    /\ pc' = [pc EXCEPT ![t] = "set_time_started"]
    /\ UNCHANGED <<now, config, waited, locks, time_started, store, locals, result, failures>>

\* line 163: cls._time_started = timezone.now()
SetTimeStarted(t) ==
    /\ pc[t] = "set_time_started"
    /\ time_started' = [time_started EXCEPT ![cls[t]] = now]
    /\ pc' = [pc EXCEPT ![t] = "check_release"]
    /\ UNCHANGED <<now, config, waited, locks, must_terminate, store, locals, result, failures>>

\* lines 164-168: cls._check_lock.release(); the result locals are set
CheckRelease(t) ==
    /\ pc[t] = "check_release"
    /\ check_lock' = Null
    /\ exception' = [exception EXCEPT ![t] = Null]
    /\ exception2' = [exception2 EXCEPT ![t] = Null]
    /\ pc' = [pc EXCEPT ![t] = "pre_update"]
    /\ UNCHANGED <<now, config, waited, update_lock, sched, store, cls, can_start, result, failures>>

\* lines 175-177: except Exception as exc
Except(t, e) ==
    /\ exception' = [exception EXCEPT ![t] = e]
    /\ pc' = [pc EXCEPT ![t] = "handle_exception"]

\* line 171: cls._pre_update(); UpdatableLoggableModel._pre_update creates
\* the run's row and keeps the instance in cls._log
PreUpdate(t) ==
    /\ pc[t] = "pre_update"
    /\ IF cls[t] = Plain
       THEN /\ pc' = [pc EXCEPT ![t] = "update_body"]
            /\ UNCHANGED <<store, exception, failures>>
       ELSE \/ /\ \E objs \in save(objects, NewLog, now, next_pk, max_objects_count) :
                     objects' = objs
               /\ log' = <<Saved(objects, NewLog, now, next_pk)>>
               /\ next_pk' = next_pk + 1
               /\ pc' = [pc EXCEPT ![t] = "update_body"]
               /\ UNCHANGED <<exception, failures>>
            \/ /\ WriteFails
               /\ Except(t, "DatabaseError")
               /\ UNCHANGED store
    /\ UNCHANGED <<now, config, waited, locks, sched, cls, can_start, exception2, result>>

\* keyword arguments UpdatableLoggableModelImpl._update reads; nothing
\* else reads them, so they are drawn when the body runs
KwargsOf(c) == IF c = Loggable THEN Kwargs ELSE {"default"}

\* line 172: cls._update(), the bodies of tests/models.py from their last
\* look at the flag on: raise RuntimeError on fail_update_param, raise
\* ProcessTerminatedError if cls._must_terminate, else sleep and return.
\* The iterations before, which found the flag false and slept, change
\* nothing but the clock.
UpdateBody(t) ==
    /\ pc[t] = "update_body"
    /\ \E kwargs \in KwargsOf(cls[t]) :
         IF kwargs = "fail_update_param"
         THEN Except(t, "RuntimeError")
         ELSE IF must_terminate[cls[t]]
         THEN Except(t, "ProcessTerminatedError")
         ELSE /\ pc' = [pc EXCEPT ![t] = "post_update"]
              /\ UNCHANGED exception
    /\ UNCHANGED <<now, config, waited, locks, sched, store, cls, can_start, exception2, result, failures>>

\* line 173: cls._post_update(); UpdatableLoggableModel._post_update stamps
\* cls._log and saves it
PostUpdate(t) ==
    /\ pc[t] = "post_update"
    /\ IF cls[t] = Plain
       THEN /\ pc' = [pc EXCEPT ![t] = "return"]
            /\ UNCHANGED <<store, exception, failures>>
            /\ UNCHANGED now
       ELSE LET finished == [log[1] EXCEPT !.time_finished = now]
            IN  \/ /\ \E t2 \in LaterRead :
                         /\ now' = t2
                         /\ \E objs \in save(objects, finished, t2, next_pk, max_objects_count) :
                               objects' = objs
                         /\ log' = <<Saved(objects, finished, t2, next_pk)>>
                   /\ pc' = [pc EXCEPT ![t] = "return"]
                   /\ UNCHANGED <<next_pk, exception, failures>>
                \/ /\ WriteFails
                   /\ log' = <<finished>>
                   /\ Except(t, "DatabaseError")
                   /\ UNCHANGED <<now, objects, next_pk>>
    /\ UNCHANGED <<config, waited, locks, sched, cls, can_start, exception2, result>>

\* UpdatableLoggableModel._handle_exception with the branches of lines
\* 296-299 exchanged
HandledSwapped(obj, e) ==
    [obj EXCEPT !.was_terminated = IF e = "ProcessTerminatedError" THEN @ ELSE TRUE,
                !.has_failed = IF e = "ProcessTerminatedError" THEN TRUE ELSE @,
                !.messages = "traceback",
                !.time_finished = now]

\* UpdatableLoggableModel._handle_exception, the assignments to cls._log
Handled(obj, e) ==
    [obj EXCEPT !.was_terminated = IF e = "ProcessTerminatedError" THEN TRUE ELSE @,
                !.has_failed = IF e = "ProcessTerminatedError" THEN @ ELSE TRUE,
                !.messages = "traceback",
                !.time_finished = now]

\* lines 178-181 with the handler's error stored over the first one
HandleExceptionMasking(t) ==
    /\ pc[t] = "handle_exception"
    /\ pc' = [pc EXCEPT ![t] = "return"]
    /\ IF cls[t] = Plain
       THEN UNCHANGED <<now, store, exception, exception2, failures>>
       ELSE IF log = <<>>
       THEN /\ exception' = [exception EXCEPT ![t] = "AttributeError"]
            /\ UNCHANGED <<now, store, exception2, failures>>
       ELSE LET handled == Handled(log[1], exception[t])
            IN  \/ /\ \E t2 \in LaterRead :
                         /\ now' = t2
                         /\ \E objs \in save(objects, handled, t2, next_pk, max_objects_count) :
                               objects' = objs
                         /\ log' = <<Saved(objects, handled, t2, next_pk)>>
                   /\ UNCHANGED <<next_pk, exception, exception2, failures>>
                \/ /\ WriteFails
                   /\ log' = <<handled>>
                   /\ exception' = [exception EXCEPT ![t] = "DatabaseError"]
                   /\ UNCHANGED <<now, objects, next_pk, exception2>>
    /\ UNCHANGED <<config, waited, locks, sched, cls, can_start, result>>

\* lines 178-181: cls._handle_exception(exc), and what it raises is kept
HandleException(t) ==
    /\ pc[t] = "handle_exception"
    /\ pc' = [pc EXCEPT ![t] = "return"]
    /\ IF cls[t] = Plain
       THEN UNCHANGED <<now, store, exception2, failures>>
       ELSE IF log = <<>>
       THEN /\ exception2' = [exception2 EXCEPT ![t] = "AttributeError"]
            /\ UNCHANGED <<now, store, failures>>
       ELSE LET handled == Handled(log[1], exception[t])
            IN  \/ /\ \E t2 \in LaterRead :
                         /\ now' = t2
                         /\ \E objs \in save(objects, handled, t2, next_pk, max_objects_count) :
                               objects' = objs
                         /\ log' = <<Saved(objects, handled, t2, next_pk)>>
                   /\ UNCHANGED <<next_pk, exception2, failures>>
                \/ /\ WriteFails
                   /\ log' = <<handled>>
                   /\ exception2' = [exception2 EXCEPT ![t] = "DatabaseError"]
                   /\ UNCHANGED <<now, objects, next_pk>>
    /\ UNCHANGED <<config, waited, locks, sched, cls, can_start, exception, result>>

\* the callers blocked in cls._check_lock.acquire() (line 152) behind an
\* admitted caller that is itself blocked in `with cls._update_lock` (line
\* 161) on the run in flight
QueuedBehindRun ==
    {w \in Threads : /\ pc[w] = "check_acquire"
                     /\ \E u \in Threads : check_lock = u /\ pc[u] = "update_acquire"}

\* line 183 returning from inside the with block without its release
ReturnHolding(t) ==
    /\ pc[t] = "return"
    /\ Returned(t, exception[t] = Null, exception[t], exception2[t])
    /\ exception' = [exception EXCEPT ![t] = Null]
    /\ exception2' = [exception2 EXCEPT ![t] = Null]
    /\ waited' = waited \cup QueuedBehindRun
    /\ UNCHANGED <<now, config, locks, sched, store, cls, can_start, failures>>

\* line 183: return, and leaving the with block releases cls._update_lock
Return(t) ==
    /\ pc[t] = "return"
    /\ update_lock' = Null
    /\ Returned(t, exception[t] = Null, exception[t], exception2[t])
    /\ exception' = [exception EXCEPT ![t] = Null]
    /\ exception2' = [exception2 EXCEPT ![t] = Null]
    /\ waited' = waited \cup QueuedBehindRun
    /\ UNCHANGED <<now, config, check_lock, sched, store, cls, can_start, failures>>

Next ==
    \/ Tick
    \/ \E t \in Threads :
         \/ Call(t)
         \/ CheckAcquire(t)
         \/ EvalCanStart(t)
         \/ HandleCannotStart(t)
         \/ RejectedReturn(t)
         \/ SetMustTerminate(t)
         \/ UpdateAcquire(t)
         \/ ClearMustTerminate(t)
         \/ SetTimeStarted(t)
         \/ CheckRelease(t)
         \/ PreUpdate(t)
         \/ UpdateBody(t)
         \/ PostUpdate(t)
         \/ HandleException(t)
         \/ Return(t)

Spec == Init /\ [][Next]_vars

SpecFaults == InitFaults /\ [][Next]_vars

SpecRetention == InitRetention /\ [][Next]_vars

SpecShared == InitShared /\ [][Next]_vars

\* ------------------------------------------------------------ vocabulary
\* lines of update() between the hand-off and the return
Running == {"pre_update", "update_body", "post_update", "handle_exception"}

\* lines of update() inside `with cls._update_lock`
Holding == {"clear_must_terminate", "set_time_started", "check_release"}
               \cup Running \cup {"return"}

\* a run of class c is in flight: a caller of c.update() holds the
\* execution lock and has recorded its start
InFlight(c) ==
    \E u \in Threads : update_lock = u /\ cls[u] = c /\ pc[u] \in Running \cup {"return"}

\* return False, None, None
RejectedResult == [kind |-> "returned", ok |-> FALSE, exc |-> Null, exc2 |-> Null]

\* ---------------------------------------------------------------- C1
\* C1: in every interleaving of concurrent update() calls on one job
\* class, at most one caller is in the pre-hook, the job body, the
\* post-hook or the failure handler at any instant.
C1_MutualExclusion ==
    \A t, u \in Threads : (pc[t] \in Running /\ pc[u] \in Running) => t = u

\* one caller runs the body while a second, admitted, waits for the lock
\* and a third has called update() too
C1_Witness ==
    \E t, u, v \in Threads :
        /\ pc[t] = "update_body"
        /\ pc[u] = "update_acquire"
        /\ pc[v] = "check_acquire"

\* ---------------------------------------------------------------- C2
\* C2: whenever update() evaluates canStart to false it returns
\* (False, None, None) with the admission lock released, it never takes
\* the execution lock, and it runs neither hook nor the job body.
C2_RejectionOutcome ==
    \A t \in Threads :
        can_start[t] = "False" =>
            /\ pc[t] \in {"handle_cannot_start", "rejected_release", "done"}
            /\ update_lock # t
            /\ (pc[t] = "done" => result[t] = RejectedResult /\ check_lock # t)

\* ---------------------------------------------------------------- C3
\* the class decides admission by its time limit alone
FixedBudget(c) == HasTimeLimit(c) /\ ~(c = Loggable /\ use_average_time)

\* timezone.now() - cls._time_started
Elapsed(c) == now - time_started[c]

C3_State ==
    \A t \in Threads :
        FixedBudget(cls[t]) =>
            \* a rejected call returns (False, None, None)
            /\ (can_start[t] = "False" /\ pc[t] = "done" => result[t] = RejectedResult)
            \* while an admitted caller waits for the lock, the flag the
            \* run in flight reads at its checkpoints is true
            /\ (pc[t] = "update_acquire" => must_terminate[cls[t]])
            \* the admitted call runs only with the lock in its hands
            /\ (pc[t] \in Running => update_lock = t)

C3_Step ==
    \A t \in Threads :
        FixedBudget(cls[t]) =>
            \* the decision of a call made while a run is in flight
            /\ (pc[t] = "is_can_start" /\ pc'[t] # "is_can_start" /\ InFlight(cls[t]) =>
                  /\ (Elapsed(cls[t]) > time_limit[cls[t]] =>
                        pc'[t] = "set_must_terminate")
                  /\ (Elapsed(cls[t]) <= time_limit[cls[t]] =>
                        pc'[t] = "handle_cannot_start"))
            \* the checkpoint of the run in flight, once a caller is admitted
            /\ (/\ pc[t] = "update_body" /\ pc'[t] # "update_body"
                /\ \E u \in Threads : pc[u] = "update_acquire" /\ cls[u] = cls[t]
                => pc'[t] = "handle_exception")
            \* the admitted call takes the lock only when it is free
            /\ (pc[t] = "update_acquire" /\ pc'[t] # "update_acquire" =>
                  /\ update_lock = Null
                  /\ \A u \in Threads : pc[u] \notin Holding)

\* C3: with a time limit B and adaptive mode off, an update() call made
\* while a run is in flight is rejected with (False, None, None) when
\* now - start <= B and admitted when now - start > B; once it is admitted
\* the run in flight finds the termination flag true at its next
\* checkpoint, and the admitted call starts its run only after the run in
\* flight has released the execution lock.
C3_FixedBudgetAdmission == []C3_State /\ [][C3_Step]_vars

\* one call was rejected within the limit, a later one is admitted and
\* waits, and the run in flight has raised the sentinel at its checkpoint
C3_Witness ==
    \E t, u, v \in Threads :
        /\ FixedBudget(cls[t])
        /\ pc[t] = "handle_exception" /\ exception[t] = "ProcessTerminatedError"
        /\ pc[u] = "update_acquire"
        /\ pc[v] = "done" /\ result[v] = RejectedResult

\* ---------------------------------------------------------------- C4
\* no time limit, and no average to compare with: adaptive mode is off, or
\* it is on and no record qualifies for the average
NoBudget(c) ==
    /\ ~HasTimeLimit(c)
    /\ (c = Loggable /\ use_average_time => CleanFinished(objects) = {})

C4_State ==
    \A c \in deployed :
        NoBudget(c) =>
            /\ (InFlight(c) =>
                  /\ ~is_can_start_raises(c)
                  /\ ~is_can_start(c)
                  /\ ~must_terminate[c]
                  /\ \A t \in Threads :
                        pc[t] \notin {"set_must_terminate", "update_acquire"})
            /\ (~is_updating(c) => is_can_start(c))

C4_Step ==
    \A t \in Threads :
        /\ NoBudget(cls[t])
        /\ InFlight(cls[t])
        /\ pc[t] = "is_can_start" /\ pc'[t] # "is_can_start"
        => /\ can_start'[t] = "False"
           /\ pc'[t] = "handle_cannot_start"

\* C4: with no time limit and no average available (adaptive mode off, or
\* on with no qualifying record), is_can_start() is false in every state in
\* which a run is in flight, whatever the clock says, so the termination
\* flag stays false for that run and every update() deciding meanwhile is
\* rejected; when no run holds the lock is_can_start() is true.
C4_NoBudgetNoOverride == []C4_State /\ [][C4_Step]_vars

\* a run has outlasted two clock ticks, one caller was rejected after them
\* and another is being rejected
C4_Witness ==
    \E t, u, v \in Threads :
        /\ NoBudget(cls[t])
        /\ pc[t] = "update_body"
        /\ now - time_started[cls[t]] = MaxTime
        /\ pc[u] = "done" /\ result[u] = RejectedResult
        /\ pc[v] = "handle_cannot_start"

\* ---------------------------------------------------------------- C5
\* C5: in every reachable state of the log table, every record with a
\* completion timestamp has at most one of was_terminated and has_failed
\* true, and neither of them when was_canceled is true.
C5_OutcomeExclusivity ==
    \A r \in objects :
        r.time_finished # None =>
            /\ ~(r.was_terminated /\ r.has_failed)
            /\ (r.was_canceled => ~r.was_terminated /\ ~r.has_failed)

\* ---------------------------------------------------------------- C6
\* the paths on which a call has left the with block
C6_Exits ==
    \A t \in Threads :
        pc[t] = "done" /\ result[t].kind = "returned" /\ can_start[t] = "True" =>
            update_lock # t

C6_Step ==
    \A t \in Threads :
        \* an acquire takes a free lock
        /\ (update_lock # t /\ update_lock' = t => update_lock = Null)
        \* the one release is the return of the call that holds it
        /\ (update_lock = t /\ update_lock' # t =>
              /\ pc[t] = "return" /\ pc'[t] = "done"
              /\ update_lock' = Null)
        \* what the hooks, the body and the handler raise leads to that return
        /\ (update_lock = t /\ pc'[t] = "done" => update_lock' = Null)

\* C6: the execution lock is held by a call exactly from its acquire to its
\* return; it is released once, by that return, on the normal path, after
\* an error of the pre-hook, the body or the post-hook, and after an error
\* of the failure handler; a call that has returned does not hold it.
C6_UpdateLockRelease ==
    /\ [](\A t \in Threads : (update_lock = t) <=> (pc[t] \in Holding))
    /\ []C6_Exits
    /\ [][C6_Step]_vars

\* a call whose failure handler raised has returned and the lock is free;
\* another returned normally
C6_Witness ==
    \E t, u \in Threads :
        /\ pc[t] = "done" /\ result[t].exc # Null /\ result[t].exc2 # Null
        /\ pc[u] = "done" /\ result[u].ok
        /\ update_lock = Null

\* ---------------------------------------------------------------- C7
\* the results of admitted calls
C7_State ==
    \A t \in Threads :
        /\ (pc[t] = "done" /\ can_start[t] = "True" =>
              \* neither error is propagated
              /\ result[t].kind = "returned"
              /\ (result[t].exc # Null => ~result[t].ok)
              /\ (result[t].exc = Null => result[t].ok))
        \* no secondary error without a primary one
        /\ (result[t].exc2 # Null => result[t].exc # Null)
        /\ (exception2[t] # Null => exception[t] # Null)

C7_Step ==
    \A t \in Threads :
        \* the handler runs for an error E and leaves E in place, adding E2
        /\ (pc[t] = "handle_exception" /\ pc'[t] # "handle_exception" =>
              /\ exception[t] # Null
              /\ exception'[t] = exception[t]
              /\ pc'[t] = "return")
        \* the return hands back (False, E, E2), or (False, E, None)
        /\ (pc[t] = "return" /\ pc'[t] # "return" =>
              /\ pc'[t] = "done"
              /\ result'[t] = [kind |-> "returned", ok |-> exception[t] = Null,
                               exc |-> exception[t], exc2 |-> exception2[t]])

\* C7: when an admitted run raises E and the failure handler raises E2
\* while handling it, update() returns (False, E, E2) and propagates
\* neither; when the handler succeeds it returns (False, E, None); the
\* secondary error is never set while the primary one is empty.
C7_SecondaryNotMasking == []C7_State /\ [][C7_Step]_vars

\* the body raised RuntimeError, the handler's save raised DatabaseError,
\* and both came back; another call's error was handled without a second
C7_Witness ==
    \E t, u \in Threads :
        /\ pc[t] = "done"
        /\ result[t] = [kind |-> "returned", ok |-> FALSE,
                        exc |-> "RuntimeError", exc2 |-> "DatabaseError"]
        /\ pc[u] = "done" /\ result[u].kind = "returned"
        /\ result[u].exc # Null /\ result[u].exc2 = Null

\* ---------------------------------------------------------------- C8
\* the record of the run of t, as the table holds it when the run returns
C8_Record(t) == CHOOSE r \in objects : r.pk = log[1].pk

C8_State ==
    \A t \in Threads :
        cls[t] = Loggable =>
            /\ (pc[t] = "return" =>
                  /\ log # <<>>
                  /\ \E r \in objects : r.pk = log[1].pk
                  /\ C8_Record(t) = log[1]
                  /\ C8_Record(t).time_finished # None
                  /\ ~C8_Record(t).was_canceled
                  /\ exception2[t] = Null
                  /\ (exception[t] = Null =>
                        /\ ~C8_Record(t).was_terminated
                        /\ ~C8_Record(t).has_failed)
                  /\ (exception[t] = "ProcessTerminatedError" =>
                        /\ C8_Record(t).was_terminated
                        /\ ~C8_Record(t).has_failed
                        /\ C8_Record(t).messages # Null)
                  /\ (exception[t] \notin {Null, "ProcessTerminatedError"} =>
                        /\ C8_Record(t).has_failed
                        /\ ~C8_Record(t).was_terminated
                        /\ C8_Record(t).messages # Null))
            /\ (pc[t] = "done" /\ can_start[t] = "True" =>
                  /\ result[t].kind = "returned"
                  /\ result[t].exc2 = Null
                  /\ result[t].ok = (result[t].exc = Null))

C8_Step ==
    \A t \in Threads :
        cls[t] = Loggable =>
            \* the pre-hook inserts the run's record, unfinished
            /\ (pc[t] = "pre_update" /\ pc'[t] # "pre_update" =>
                  /\ pc'[t] = "update_body"
                  /\ log'[1].pk \notin Pks(objects)
                  /\ log'[1] \in objects'
                  /\ log'[1].time_finished = None)
            \* body, post-hook and handler keep to that record
            /\ (pc[t] \in {"update_body", "post_update", "handle_exception"} =>
                  log'[1].pk = log[1].pk)
            \* the body's outcome is what comes back
            /\ (pc[t] = "update_body" /\ pc'[t] = "post_update" => exception'[t] = Null)
            /\ (pc[t] = "post_update" /\ pc'[t] # "post_update" =>
                  pc'[t] = "return" /\ exception'[t] = Null)
            /\ (pc[t] = "return" /\ pc'[t] # "return" =>
                  result'[t] = [kind |-> "returned", ok |-> exception[t] = Null,
                                exc |-> exception[t], exc2 |-> Null])

\* C8: an admitted run of the loggable class whose body completes returns
\* (True, None, None) and its record has time_finished set and the three
\* flags false; a body that raises ProcessTerminatedError gives
\* (False, that error, None) and a record with was_terminated true and
\* has_failed false; a body that raises another error gives
\* (False, that error, None) and a record with has_failed true and
\* was_terminated false; in both error cases time_finished and messages
\* are set.
C8_OutcomeTaxonomy == []C8_State /\ [][C8_Step]_vars

\* a terminated run is about to return and an earlier run has failed
C8_Witness ==
    \E t \in Threads :
        /\ cls[t] = Loggable /\ pc[t] = "return"
        /\ exception[t] = "ProcessTerminatedError"
        /\ log[1].was_terminated
        /\ \E u \in Threads :
              /\ pc[u] = "done"
              /\ result[u] = [kind |-> "returned", ok |-> FALSE,
                              exc |-> "RuntimeError", exc2 |-> Null]
        /\ \E r \in objects : r.has_failed /\ ~r.was_terminated

\* ---------------------------------------------------------------- C9
\* the step of _handle_cannot_start in a rejected call of the loggable class
C9_Step ==
    \A t \in Threads :
        /\ cls[t] = Loggable
        /\ pc[t] = "handle_cannot_start"
        /\ pc'[t] = "rejected_release"
        => \E r \in objects' :
              /\ r.pk \notin Pks(objects)
              /\ objects' = objects \cup {r}
              /\ r.was_canceled /\ ~r.was_terminated /\ ~r.has_failed
              /\ r.time_created = r.time_finished

\* C9: each rejected update() of the loggable class inserts exactly one
\* record, with was_canceled true, was_terminated and has_failed false and
\* time_created equal to time_finished, and changes no other record.
C9_RejectionRecord == [][C9_Step]_vars

\* --------------------------------------------------------------- C10
\* C10: for two distinct job classes a and b, while a run of a is in
\* flight b.is_updating() is false and b.is_can_start() is true, so that
\* b.update() is admitted and runs without waiting for a.
C10_JobClassScoping ==
    \A a, b \in deployed :
        a # b /\ InFlight(a) =>
            /\ ~is_updating(b)
            /\ ~is_can_start_raises(b)
            /\ is_can_start(b)
            /\ \A t \in Threads : cls[t] = b => pc[t] # "update_acquire"

\* --------------------------------------------------------------- C11
\* C11: in adaptive mode, whenever a run is in flight, at least one clean
\* finished record exists (a zero average included) and the elapsed time
\* is greater than the average times the coefficient, is_can_start()
\* returns true, with or without a time limit and whether or not the time
\* limit has been exceeded.
C11_AdaptiveOverride ==
    \A c \in deployed :
        /\ c = Loggable /\ use_average_time
        /\ InFlight(c)
        /\ CleanFinished(objects) # {}
        /\ ExceedsAverage(Elapsed(c), calc_average_update_time(objects))
        => is_can_start(c)

\* --------------------------------------------------------------- C12
\* C12: in adaptive mode, when the table holds no clean finished record,
\* is_can_start() for a run in flight is the time-limit decision: true iff
\* a time limit is set and the elapsed time is greater than it.
C12_AdaptiveFallThrough ==
    \A c \in deployed :
        /\ c = Loggable /\ use_average_time
        /\ InFlight(c)
        /\ CleanFinished(objects) = {}
        => /\ ~is_can_start_raises(c)
           /\ is_can_start(c) = (HasTimeLimit(c) /\ Elapsed(c) > time_limit[c])

\* adaptive mode, an empty clean history (a failed record only), a time
\* limit that the run in flight has outlasted
C12_Witness ==
    \E t \in Threads :
        /\ cls[t] = Loggable /\ use_average_time
        /\ pc[t] = "update_body"
        /\ CleanFinished(objects) = {}
        /\ \E r \in objects : r.has_failed
        /\ HasTimeLimit(Loggable)
        /\ Elapsed(Loggable) > time_limit[Loggable]

\* --------------------------------------------------------------- C13
\* the records the estimate is taken over
C13_Qualifying ==
    {r \in objects : /\ ~r.was_canceled /\ ~r.was_terminated /\ ~r.has_failed
                     /\ r.time_created # None /\ r.time_finished # None}

\* the estimate as <<sum of durations, number of records>>
C13_Average == calc_average_update_time(objects)

C13_State ==
    /\ C13_Average[2] = Cardinality(C13_Qualifying)
    /\ (C13_Qualifying = {} => C13_Average = <<0, 0>>)
    /\ \A r \in C13_Qualifying :
          (\A q \in C13_Qualifying :
              q.time_finished - q.time_created <= r.time_finished - r.time_created)
          => C13_Average[1] <= C13_Average[2] * (r.time_finished - r.time_created)

C13_Step ==
    \* a record that joins the qualifying ones adds its duration to the mean
    /\ \/ C13_Qualifying' = C13_Qualifying /\ C13_Average' = C13_Average
       \/ \E r \in C13_Qualifying' :
             /\ r \notin C13_Qualifying
             /\ C13_Qualifying' = C13_Qualifying \cup {r}
             /\ C13_Average'[1] = C13_Average[1] + (r.time_finished - r.time_created)
             /\ C13_Average'[2] = C13_Average[2] + 1
    \* a canceled, terminated or failed record written to the table changes
    \* nothing
    /\ ((\E r \in objects' : /\ r \notin objects
                             /\ (r.was_canceled \/ r.was_terminated \/ r.has_failed))
        => C13_Average' = C13_Average)

\* C13: calc_average_update_time() is the arithmetic mean of
\* time_finished - time_created over exactly the records with was_canceled,
\* was_terminated and has_failed false and both timestamps set, and None
\* when there is none; writing canceled, terminated or failed records
\* leaves it unchanged.
C13_DurationEstimate == []C13_State /\ [][C13_Step]_vars

\* two clean runs of different durations next to a failed and a canceled
\* record
C13_Witness ==
    /\ C13_Average[2] = 2
    /\ C13_Average[1] = 1
    /\ \E r \in objects : r.time_finished # None /\ (r.has_failed \/ r.was_canceled)

\* --------------------------------------------------------------- C14
\* the greatest completion timestamp of the records, None when none has one
C14_Latest(rows) ==
    IF \A r \in rows : r.time_finished = None THEN None
    ELSE Greatest({r.time_finished : r \in {x \in rows : x.time_finished # None}})

\* C14: get_last_update_attempt_time() is the greatest time_finished among
\* the records with was_canceled false, get_last_successful_update_time()
\* the greatest among those with the three flags false, each None when no
\* record passes its filter; an unfinished record does not make the result
\* None while a finished record passes the filter.
C14_HistoryReadModels ==
    \A order \in NullOrders :
        /\ get_last_update_attempt_time(objects, order) =
              C14_Latest({r \in objects : ~r.was_canceled})
        /\ get_last_successful_update_time(objects, order) =
              C14_Latest({r \in objects :
                            ~r.was_canceled /\ ~r.was_terminated /\ ~r.has_failed})

\* --------------------------------------------------------------- C15
\* what the two queries return in the current state, on a backend that
\* sorts NULL lowest
C15_LastAttempt == get_last_update_attempt_time(objects, "nulls_smallest")
C15_LastSuccess == get_last_successful_update_time(objects, "nulls_smallest")

C15_Step ==
    /\ C15_LastAttempt <= now
    /\ C15_LastSuccess <= now
    /\ (C15_LastAttempt # None =>
          C15_LastAttempt' # None /\ C15_LastAttempt' >= C15_LastAttempt)
    /\ (C15_LastSuccess # None =>
          C15_LastSuccess' # None /\ C15_LastSuccess' >= C15_LastSuccess)

\* C15: over any sequence of update() calls on one job class, with
\* max_objects_count of the log model set or unset, each value returned by
\* get_last_update_attempt_time() and get_last_successful_update_time() is
\* not later than the current time and not earlier than a value the same
\* query returned before; a query that has returned a timestamp never
\* returns None afterwards.
C15_MonotonicQueries == [][C15_Step]_vars

\* --------------------------------------------------------------- C16
\* the scenario has run: time limit only, call t was terminated, call u was
\* rejected, call v completed, and u's record was written before v's run
\* wrote its own
C16_Scenario(t, u, v) ==
    /\ FixedBudget(Loggable)
    /\ cls[t] = Loggable /\ cls[u] = Loggable /\ cls[v] = Loggable
    /\ pc[t] = "done" /\ pc[u] = "done" /\ pc[v] = "done"
    /\ result[t] = [kind |-> "returned", ok |-> FALSE,
                    exc |-> "ProcessTerminatedError", exc2 |-> Null]
    /\ result[u] = RejectedResult
    /\ result[v] = [kind |-> "returned", ok |-> TRUE, exc |-> Null, exc2 |-> Null]
    /\ \E r \in objects : r.pk = 2 /\ r.was_canceled

\* the three records of the scenario
C16_Canceled == CHOOSE r \in objects : r.was_canceled
C16_Terminated == CHOOSE r \in objects : r.was_terminated
C16_Successful ==
    CHOOSE r \in objects : ~r.was_canceled /\ ~r.was_terminated /\ ~r.has_failed

\* exactly three finished records, one of each outcome
C16_ThreeRecords ==
    /\ Cardinality(objects) = 3
    /\ \A r \in objects : r.time_finished # None /\ ~r.has_failed
    /\ objects = {C16_Canceled, C16_Terminated, C16_Successful}
    /\ ~C16_Canceled.was_terminated /\ ~C16_Terminated.was_canceled

C17_RejectedDoNotWait ==
    \A w \in Threads : can_start[w] = "False" => w \notin waited

\* C17 as amended: a rejected caller never waits for the execution lock and
\* is not blocked from its decision to its return; before its decision it
\* waits for the admission lock only, which an admitted caller may hold
\* until the run in flight has ended.
C17_RejectedDoNotWaitAmended ==
    \A w \in Threads :
        /\ (pc[w] = "update_acquire" => can_start[w] = "True")
        /\ (can_start[w] = "False" =>
              /\ pc[w] \in {"handle_cannot_start", "rejected_release", "done"}
              /\ (pc[w] = "handle_cannot_start" => ENABLED HandleCannotStart(w))
              /\ (pc[w] = "rejected_release" => ENABLED RejectedReturn(w)))
        /\ (w \in waited /\ can_start[w] = "unknown" =>
              pc[w] \in {"check_acquire", "is_can_start"})

\* a caller that stood behind an admitted caller until run 1 ended and was
\* then rejected against run 2
C17_Witness ==
    \E w, u \in Threads :
        /\ w \in waited
        /\ pc[w] = "done" /\ result[w] = RejectedResult
        /\ pc[u] \in Running

\* --------------------------------------------------------------- C18
\* a record as the ordering sees it
C18_Key(r) == <<r.pk, r.time_created>>

\* the step saves a record: a pre-hook or a rejection inserts one, a
\* post-hook or a failure handler saves cls._log
C18_Saves ==
    \/ next_pk' # next_pk
    \/ \E t \in Threads :
          /\ cls[t] = Loggable /\ log # <<>>
          /\ pc[t] \in {"post_update", "handle_exception"}
          /\ pc'[t] = "return"

\* the record the step saves
C18_Saved ==
    IF next_pk' # next_pk THEN <<next_pk, now'>> ELSE C18_Key(log'[1])

\* the table with that record written, before anything is deleted
C18_Written ==
    {C18_Key(r) : r \in {x \in objects : x.pk # C18_Saved[1]}} \cup {C18_Saved}

\* the table the step leaves
C18_Kept == {C18_Key(r) : r \in objects'}

C18_Step ==
    IF ~C18_Saves
    THEN objects' = objects
    ELSE /\ C18_Kept \subseteq C18_Written
         /\ IF max_objects_count = None
            THEN \* nothing is ever deleted
                 C18_Kept = C18_Written
            ELSE \* at most N records are left, and no fewer than there were
                 /\ Cardinality(C18_Kept) =
                       IF Cardinality(C18_Written) <= max_objects_count
                       THEN Cardinality(C18_Written) ELSE max_objects_count
                 \* the ones deleted come before the ones kept in the ordering
                 /\ \A d \in C18_Written \ C18_Kept : \A k \in C18_Kept :
                       d[2] <= k[2]

\* C18: with max_objects_count = N > 0 the table holds at most N records
\* after every save or create of the auto-deleting model, and they are the
\* N newest by time_created (the oldest count - N are deleted); with
\* max_objects_count unset nothing is deleted.
C18_BoundedRetention ==
    /\ [](max_objects_count # None => Cardinality(objects) <= max_objects_count)
    /\ [][C18_Step]_vars

\* the table is full and older records have been deleted
C18_Witness ==
    /\ max_objects_count # None
    /\ Cardinality(objects) = max_objects_count
    /\ \E r \in objects : r.pk > max_objects_count + 1
    /\ \A r \in objects : r.time_created > 0

\* --------------------------------------------------------------- C19
\* lines 153-164 of update(): between the acquire of the admission lock and
\* its release
Admission == {"is_can_start", "handle_cannot_start", "rejected_release",
              "set_must_terminate", "update_acquire", "clear_must_terminate",
              "set_time_started", "check_release"}

C19_State ==
    \A t \in Threads :
        \* the admission lock is held from line 152 to the release
        /\ (pc[t] \in Admission => check_lock = t)
        \* while t waits for the execution lock nobody else waits for it,
        \* evaluates is_can_start() or is about to write the flag or the
        \* start time
        /\ (pc[t] = "update_acquire" =>
              \A u \in Threads \ {t} : pc[u] \notin Admission)

C19_Step ==
    \A t \in Threads :
        pc[t] = "update_acquire" /\ pc'[t] = "update_acquire" =>
            /\ must_terminate' = must_terminate
            /\ time_started' = time_started
            /\ can_start' = can_start
            /\ check_lock' = t

\* C19: the admission lock is held from the start of update() until the
\* caller has acquired the execution lock or has been rejected, so at most
\* one caller waits for the execution lock at a time, and while it waits no
\* other caller evaluates is_can_start() or writes _must_terminate or
\* _time_started.
C19_SingleHandOff == []C19_State /\ [][C19_Step]_vars

\* an admitted caller waits for the lock the run in flight holds, and the
\* third caller stands before the admission lock
C19_Witness ==
    \E t, u, w \in Threads :
        /\ pc[t] = "update_body"
        /\ pc[u] = "update_acquire"
        /\ pc[w] = "check_acquire"
        /\ must_terminate[cls[t]]

\* --------------------------------------------------------------- C20
\* a caller of class c has been admitted and waits for the execution lock
AdmittedWaiting(c) ==
    \E u \in Threads : pc[u] = "update_acquire" /\ cls[u] = c

C20_State ==
    \A t \in Threads :
        \* the flag is true as long as the admitted caller waits, that is
        \* until the run in flight has released the lock
        /\ (pc[t] = "update_acquire" => must_terminate[cls[t]])
        \* a run that has reached its pre-hook or body finds the flag true
        \* only with a caller admitted since it took the lock
        /\ (pc[t] \in {"check_release", "pre_update", "update_body"}
            /\ must_terminate[cls[t]]
            => AdmittedWaiting(cls[t]))
        /\ (pc[t] = "check_release" => ~must_terminate[cls[t]])

C20_Step ==
    \A c \in Classes :
        \* the flag is cleared by the new run only, with the lock in hand
        /\ (must_terminate[c] /\ ~must_terminate'[c] =>
              \E u \in Threads :
                 /\ cls[u] = c /\ update_lock = u
                 /\ pc[u] = "clear_must_terminate"
                 /\ pc'[u] = "set_time_started")
        \* and set by a caller that has been admitted
        /\ (~must_terminate[c] /\ must_terminate'[c] =>
              \E u \in Threads :
                 /\ cls[u] = c /\ can_start[u] = "True"
                 /\ pc[u] = "set_must_terminate"
                 /\ pc'[u] = "update_acquire")
        \* the body raises the sentinel only on a flag set for its own run
        /\ \A t \in Threads :
              (/\ cls[t] = c /\ pc[t] = "update_body"
               /\ exception'[t] = "ProcessTerminatedError"
               => must_terminate[c] /\ AdmittedWaiting(c))

\* C20: once a caller is admitted while a run is in flight _must_terminate
\* stays true until that run has released the execution lock; the new run
\* clears it before its pre-hook and body start; a body finds it true only
\* if another caller was admitted after the body's run took the lock.
C20_TerminationSignal == []C20_State /\ [][C20_Step]_vars

\* run 2, whose caller had the first run terminated, is in its body with
\* the flag cleared
C20_Witness ==
    \E t, u \in Threads :
        /\ pc[t] = "done" /\ result[t].exc = "ProcessTerminatedError"
        /\ pc[u] = "update_body" /\ cls[u] = cls[t]
        /\ ~must_terminate[cls[u]]

\* --------------------------------------------------------------- C21
C21_Step ==
    /\ \A r \in objects :
          \* a record that has a completion timestamp is not written again
          /\ (r.time_finished # None => r \in objects')
          \* an open record is written by the run whose pre-hook created
          \* it, and by that write it is finished
          /\ (r.time_finished = None /\ r \notin objects' =>
                \E t \in Threads :
                   /\ pc[t] \in {"post_update", "handle_exception"}
                   /\ pc'[t] = "return"
                   /\ log # <<>> /\ log[1].pk = r.pk
                   /\ \E q \in objects' : q.pk = r.pk /\ q.time_finished # None)
    \* the post-hook and the handler of a run write no record but the one
    \* its own pre-hook created
    /\ \A t \in Threads :
          (/\ cls[t] = Loggable
           /\ pc[t] \in {"post_update", "handle_exception"}
           /\ pc'[t] = "return"
           /\ objects' # objects
           => \E r \in objects : r.time_finished = None /\ r \notin objects')

\* C21: the post-hook and the failure handler of a run write only the
\* record that run's pre-hook created; a record that has a completion
\* timestamp is never modified by a later run, also when the later run's
\* pre-hook fails to create its own record; each record a pre-hook created
\* is finalized once.
C21_FinalizeByIdentity == [][C21_Step]_vars

\* --------------------------------------------------------------- C22
\* C22: in adaptive mode, when a run is in flight, a non-zero average
\* exists and the elapsed time is not greater than the average times the
\* coefficient, is_can_start() returns false, also when a time limit is set
\* and the elapsed time is greater than it.
C22_EstimateIgnoresLimit ==
    \A c \in deployed :
        /\ c = Loggable /\ use_average_time
        /\ InFlight(c)
        /\ Truthy(calc_average_update_time(objects))
        /\ ~ExceedsAverage(Elapsed(c), calc_average_update_time(objects))
        => /\ ~is_can_start_raises(c)
           /\ ~is_can_start(c)

\* the time limit is exceeded and the average is not
C22_Witness ==
    /\ use_average_time
    /\ InFlight(Loggable)
    /\ Truthy(calc_average_update_time(objects))
    /\ ~ExceedsAverage(Elapsed(Loggable), calc_average_update_time(objects))
    /\ HasTimeLimit(Loggable)
    /\ Elapsed(Loggable) > time_limit[Loggable]

\* --------------------------------------------------------------- C23
\* C23: every update() call that has ended, by return or by an error
\* raised from is_can_start() or from the rejection hook, has released the
\* admission lock, so that a later call can get its admission decision.
C23_CheckLockNotLeaked ==
    \A t \in Threads :
        pc[t] = "done" =>
            /\ check_lock # t
            /\ (\A u \in Threads : pc[u] \in {"idle", "check_acquire", "done"})
               => check_lock = Null

\* --------------------------------------------------------------- C24
\* C24: in every state in which is_updating() is true for a job class its
\* _time_started is set, so that is_can_start(), called by any thread at
\* any moment, also outside update() and during the first run, computes
\* the elapsed time without failing.
C24_StartTimePresent ==
    \A c \in deployed :
        is_updating(c) =>
            /\ time_started[c] # None
            /\ ~is_can_start_raises(c)

====
